---- MODULE Spec2Model ----
(***************************************************************************)
(* Model of the research workflow of src/workflow.py: the LangGraph state  *)
(* graph planner -> researcher -> writer -> reviewer with the conditional  *)
(* edge _should_revise, the four agent nodes of src/agents/ and the two    *)
(* gateways of src/providers/.                                             *)
(*                                                                         *)
(* Representation.  A Python str is a sequence of tokens (TLA+ strings):   *)
(* the empty str is <<>>, whitespace is the tokens " " and "\n", and the   *)
(* operations the code applies (strip, upper, split, in) act on tokens.    *)
(* A dict is a function on its keys, so a partial update returned by a     *)
(* node is a record with only the keys the node sets.  A call that may     *)
(* raise yields [exc |-> name, ...] with exc = "none" when it returns.     *)
(* A str the code only copies and compares (a title, a url, a snippet, a   *)
(* provider name) is a TLA+ string, "" when empty.                         *)
(***************************************************************************)
EXTENDS Integers, Sequences, FiniteSets, TLC

VARIABLES
  state,        \* the ResearchState of the run (workflow.py:14-43)
  pc,           \* the node the graph runs next, END when the stream is exhausted
  final_state,  \* run_research's final_state: the last update streamed, or None
  outcome,      \* run_research is running, has returned a value, or has raised
  calls,        \* history: one entry per node invocation (see Call)
  io,           \* history: the gateway calls of the last node invocation
  runs,         \* concurrent calls of run_research: per call its thread_id,
                \* position, last streamed update, outcome and, as history,
                \* its arguments and the gateway answers it got
  memory        \* the MemorySaver objects: per saver, thread_id -> checkpoint

vars == <<state, pc, final_state, outcome, calls, io, runs, memory>>

(***************************************************************************)
(* Python helpers                                                          *)
(***************************************************************************)
\* dict.get(k, default)
Get(d, k, default) == IF k \in DOMAIN d THEN d[k] ELSE default

\* s[:n]
Take(s, n) == SubSeq(s, 1, IF n < Len(s) THEN n ELSE Len(s))

\* the value None
None == [none |-> TRUE]

Whitespace == {" ", "\n"}

RECURSIVE LStrip(_)
LStrip(t) ==
  IF t # <<>> /\ Head(t) \in Whitespace THEN LStrip(Tail(t)) ELSE t

RECURSIVE RStrip(_)
RStrip(t) ==
  IF t # <<>> /\ t[Len(t)] \in Whitespace
  THEN RStrip(SubSeq(t, 1, Len(t) - 1))
  ELSE t

\* str.strip()
Strip(t) == RStrip(LStrip(t))

\* str.upper(), token by token
UpperToken(c) ==
  CASE c = "needs_revision" -> "NEEDS_REVISION"
    [] c = "Needs_Revision" -> "NEEDS_REVISION"
    [] c = "approved" -> "APPROVED"
    [] c = "ok" -> "OK"
    [] OTHER -> c

Upper(t) == [i \in 1..Len(t) |-> UpperToken(t[i])]

\* sub in t
Contains(sub, t) ==
  \E i \in 1..(Len(t) - Len(sub) + 1) : SubSeq(t, i, i + Len(sub) - 1) = sub

\* str.split("\n")
RECURSIVE Split(_, _)
Split(t, cur) ==
  IF t = <<>> THEN <<cur>>
  ELSE IF Head(t) = "\n" THEN <<cur>> \o Split(Tail(t), <<>>)
  ELSE Split(Tail(t), Append(cur, Head(t)))

\* the marker the warning messages start with
Warn == "(!)"

\* AIMessage(content=...)
AIMessage(content) == [type |-> "ai", content |-> content]

\* HumanMessage(content=...)
HumanMessage(content) == [type |-> "human", content |-> content]

\* a node returns an update / a call raises; io lists the gateway calls
\* the invocation made
Ret(u) == [exc |-> "none", update |-> u, io |-> <<>>]
Raise(e) == [exc |-> e, update |-> None, io |-> <<>>]
Did(calls_made, result) == [result EXCEPT !.io = calls_made]

\* the gateway calls: get_llm(...), chain.invoke(...), search(...) of the
\* step with index idx, time.sleep(0.5)
LlmCall(exc) == [call |-> "get_llm", exc |-> exc]
InvokeCall(response) == [call |-> "invoke", response |-> response]
SearchCall(idx, found) == [call |-> "search", step |-> idx, found |-> found]
SleepCall == [call |-> "sleep"]

(***************************************************************************)
(* providers/llm.py                                                        *)
(***************************************************************************)
\* the process environment as os.getenv reads it at a call: every key and
\* endpoint set, or none
AllKeys == [k \in {"ANTHROPIC_API_KEY", "OPENAI_API_KEY", "OPENAI_BASE_URL",
                   "BRAVE_API_KEY", "SERPER_API_KEY"} |-> TRUE]
NoKeys == [k \in DOMAIN AllKeys |-> FALSE]
Envs == {AllKeys, NoKeys}

\* get_llm: "none" when an LLM instance is returned, else the exception
get_llm(provider, env) ==
  IF provider = "anthropic"
  THEN (IF ~env.ANTHROPIC_API_KEY THEN "ValueError" ELSE "none")
  ELSE IF provider = "openai"
  THEN (IF ~env.OPENAI_API_KEY THEN "ValueError" ELSE "none")
  ELSE IF provider = "ollama" THEN "none"
  ELSE IF provider = "custom"
  THEN (IF ~env.OPENAI_BASE_URL THEN "ValueError" ELSE "none")
  ELSE "ValueError"

\* what chain.invoke does: it returns a text or raises
InvokeOk(t) == [exc |-> "none", text |-> t]
InvokeFails == [exc |-> "Exception", text |-> <<>>]

(***************************************************************************)
(* agents/planner.py                                                       *)
(***************************************************************************)
\* Python values a parsed JSON document is made of
PyStr(text) == [t |-> "str", v |-> text]
PyNum(n) == [t |-> "num", v |-> n]
PyList(items) == [t |-> "list", items |-> items]
PyDict == [t |-> "dict", items |-> <<>>]

\* str(step)
Str(x) == IF x.t = "str" THEN x.v ELSE <<ToString(x.v)>>

\* A model response: its text, and the document json.loads makes of it
\* (None when the text is not JSON).
JsonResponse(raw, doc) == [exc |-> "none", text |-> raw, json |-> doc]
TextResponse(raw) == [exc |-> "none", text |-> raw, json |-> None]

\* json.loads(response)
json_loads(response) ==
  IF response.json = None
  THEN [exc |-> "JSONDecodeError", value |-> None]
  ELSE [exc |-> "none", value |-> response.json]

\* ParsePlan with [query] for every response that is not JSON
ParsePlan_no_line_fallback(response, query) ==
  LET parsed == json_loads(response) IN
  IF parsed.exc = "none"
  THEN LET plan == parsed.value
           checked == IF plan.t # "list" \/ Len(plan.items) < 2
                         \/ Len(plan.items) > 5
                      THEN <<PyStr(query)>>
                      ELSE plan.items
       IN [i \in 1..Len(checked) |-> Str(checked[i])]
  ELSE <<query>>

\* ParsePlan without the check of the number of steps
ParsePlan_unvalidated(response, query) ==
  LET parsed == json_loads(response) IN
  IF parsed.exc = "none"
  THEN LET plan == parsed.value
           checked == IF plan.t # "list" THEN <<PyStr(query)>> ELSE plan.items
       IN [i \in 1..Len(checked) |-> Str(checked[i])]
  ELSE LET split == Split(response.text, <<>>)
           stripped == [i \in 1..Len(split) |-> Strip(split[i])]
           lines == SelectSeq(stripped, LAMBDA l : l # <<>>)
       IN IF lines # <<>> THEN Take(lines, 5) ELSE <<query>>

\* lines 70-84: the plan made of a response
ParsePlan(response, query) ==
  LET parsed == json_loads(response) IN
  IF parsed.exc = "none"
  THEN LET plan == parsed.value
           checked == IF plan.t # "list" \/ Len(plan.items) < 2
                         \/ Len(plan.items) > 5
                      THEN <<PyStr(query)>>
                      ELSE plan.items
       IN [i \in 1..Len(checked) |-> Str(checked[i])]
  ELSE LET split == Split(response.text, <<>>)
           stripped == [i \in 1..Len(split) |-> Strip(split[i])]
           lines == SelectSeq(stripped, LAMBDA l : l # <<>>)
       IN IF lines # <<>> THEN Take(lines, 5) ELSE <<query>>

\* planner_node calling the model although get_llm raised ValueError
planner_node_invokes_anyway(st, env, response) ==
  Did(<<LlmCall(get_llm(st.llm_provider, env)), InvokeCall(response)>>,
    IF response.exc # "none"
    THEN Ret([plan |-> <<st.query>>,
              messages |-> <<AIMessage(<<Warn, "  Planning failed, using direct query: ",
                                        response.exc>>)>>])
    ELSE LET plan == ParsePlan(response, st.query) IN
         Ret([plan |-> plan,
              messages |-> <<AIMessage(<<"Created research plan with ",
                                        ToString(Len(plan)), " steps">>)>>]))

\* planner_node without the handler of get_llm's ValueError
planner_node_uncaught(st, env, response) ==
  IF get_llm(st.llm_provider, env) = "ValueError"
  THEN Did(<<LlmCall("ValueError")>>, Raise("ValueError"))
  ELSE Did(<<LlmCall("none"), InvokeCall(response)>>,
    IF response.exc # "none"
    THEN Ret([plan |-> <<st.query>>,
              messages |-> <<AIMessage(<<Warn, "  Planning failed, using direct query: ",
                                        response.exc>>)>>])
    ELSE LET plan == ParsePlan(response, st.query) IN
         Ret([plan |-> plan,
              messages |-> <<AIMessage(<<"Created research plan with ",
                                        ToString(Len(plan)), " steps">>)>>]))

planner_node(st, env, response) ==
  IF get_llm(st.llm_provider, env) = "ValueError"
  THEN Did(<<LlmCall("ValueError")>>,
           Ret([plan |-> <<st.query>>,
                messages |-> <<AIMessage(<<Warn, "  Planner error: ", "ValueError">>)>>]))
  ELSE Did(<<LlmCall("none"), InvokeCall(response)>>,
    IF response.exc # "none"
    THEN Ret([plan |-> <<st.query>>,
              messages |-> <<AIMessage(<<Warn, "  Planning failed, using direct query: ",
                                        response.exc>>)>>])
    ELSE LET plan == ParsePlan(response, st.query) IN
         Ret([plan |-> plan,
              messages |-> <<AIMessage(<<"Created research plan with ",
                                        ToString(Len(plan)), " steps">>)>>]))

(***************************************************************************)
(* providers/search.py                                                     *)
(***************************************************************************)
\* the largest and smallest result count the gateway dispatches
MaxNumResults == 10
MinNumResults == 1

\* max(1, num_results) only
ClampNumResults_no_cap(n) == IF n < MinNumResults THEN MinNumResults ELSE n

\* max(1, min(num_results, 10))
ClampNumResults(n) ==
  IF n > MaxNumResults THEN MaxNumResults
  ELSE IF n < MinNumResults THEN MinNumResults ELSE n

\* the keys under which each backend sends an item's url and snippet
ItemKeys(provider) ==
  IF provider = "duckduckgo" THEN [url |-> "href", snippet |-> "body"]
  ELSE IF provider = "brave" THEN [url |-> "url", snippet |-> "description"]
  ELSE [url |-> "link", snippet |-> "snippet"]

\* the uniform result made of a backend item
Normalize(item, keys) ==
  [title |-> Get(item, "title", "No title"),
   url |-> Get(item, keys.url, ""),
   snippet |-> Get(item, keys.snippet, "")]

NormalizeAll(items, keys) == [i \in 1..Len(items) |-> Normalize(items[i], keys)]

\* What a backend does at one search call: whether the provider's API key is
\* in the environment, and the outcome of each HTTP attempt (kind "ok" with the
\* items sent back, "RequestException", "AttributeError" for a body that is
\* not the expected document, or, for the duckduckgo library, "ImportError"
\* and "Exception").
AttemptOk(items) == [kind |-> "ok", items |-> items]
AttemptFails(kind) == [kind |-> kind, items |-> <<>>]

\* what a search call does on its way: a request to the backend for `count`
\* items (attempt is 0-based), time.sleep(seconds)
BackendCall(attempt, count) ==
  [op |-> "request", attempt |-> attempt, count |-> count]
Backoff(seconds) == [op |-> "sleep", seconds |-> seconds]

\* ddgs.text(query, max_results=n): the library sends back at most n items
ddgs_text(items, max_results) == Take(items, max_results)

_search_duckduckgo(num_results, backend) ==
  LET a == backend.attempts[1] IN
  IF a.kind = "ImportError"
  THEN [exc |-> "ImportError", results |-> <<>>, log |-> <<>>]
  ELSE IF a.kind # "ok"
  THEN [exc |-> "none", results |-> <<>>, log |-> <<BackendCall(0, num_results)>>]
  ELSE [exc |-> "none",
        results |-> NormalizeAll(ddgs_text(a.items, num_results),
                                 ItemKeys("duckduckgo")),
        log |-> <<BackendCall(0, num_results)>>]

\* max_retries = 3
MaxRetries == 3

\* the retry loop of _search_brave and _search_serper, from attempt number
\* `attempt` (0-based) on
RECURSIVE RetryLoop(_, _, _, _)
RetryLoop(attempt, num_results, backend, keys) ==
  IF attempt >= MaxRetries THEN [exc |-> "none", results |-> <<>>, log |-> <<>>]
  ELSE LET a == backend.attempts[attempt + 1] IN
       IF a.kind = "ok"
       THEN [exc |-> "none",
             results |-> NormalizeAll(Take(a.items, num_results), keys),
             log |-> <<BackendCall(attempt, num_results)>>]
       ELSE IF a.kind # "RequestException"
       THEN [exc |-> a.kind, results |-> <<>>, log |-> <<BackendCall(attempt, num_results)>>]
       ELSE IF attempt = MaxRetries - 1
       THEN [exc |-> "none", results |-> <<>>, log |-> <<BackendCall(attempt, num_results)>>]
       ELSE LET rest == RetryLoop(attempt + 1, num_results, backend, keys)
            IN [rest EXCEPT !.log = <<BackendCall(attempt, num_results), Backoff(2 ^ attempt)>>
                                      \o rest.log]

_search_brave(num_results, backend) ==
  IF ~backend.env.BRAVE_API_KEY
  THEN [exc |-> "ValueError", results |-> <<>>, log |-> <<>>]
  ELSE RetryLoop(0, num_results, backend, ItemKeys("brave"))

_search_serper(num_results, backend) ==
  IF ~backend.env.SERPER_API_KEY
  THEN [exc |-> "ValueError", results |-> <<>>, log |-> <<>>]
  ELSE RetryLoop(0, num_results, backend, ItemKeys("serper"))

\* search(query, provider, num_results): the results, or the exception raised
search(provider, num_results, backend) ==
  LET n == ClampNumResults(num_results) IN
  IF provider = "duckduckgo" THEN _search_duckduckgo(n, backend)
  ELSE IF provider = "brave" THEN _search_brave(n, backend)
  ELSE IF provider = "serper" THEN _search_serper(n, backend)
  ELSE [exc |-> "ValueError", results |-> <<>>, log |-> <<>>]

(***************************************************************************)
(* agents/researcher.py                                                    *)
(***************************************************************************)
\* lines 59-64: one step's results folded into all_results; seen_urls is the
\* set of urls of all_results
AddStepResults_keeps_all(all_results, step_results, idx) ==
  all_results \o
    [i \in 1..Len(SelectSeq(step_results, LAMBDA r : Get(r, "url", "") # "")) |->
       LET result == SelectSeq(step_results, LAMBDA r : Get(r, "url", "") # "")[i]
       IN [title |-> result.title, url |-> result.url,
           snippet |-> result.snippet, step_index |-> idx]]
\* AddStepResults stamping every entry with step 0
RECURSIVE AddStepResults_unstamped(_, _, _)
AddStepResults_unstamped(all_results, step_results, idx) ==
  IF step_results = <<>> THEN all_results
  ELSE LET result == Head(step_results)
           url == Get(result, "url", "")
           seen_urls == {all_results[i].url : i \in 1..Len(all_results)}
       IN IF url # "" /\ url \notin seen_urls
          THEN AddStepResults_unstamped(
                 Append(all_results,
                        [title |-> result.title, url |-> result.url,
                         snippet |-> result.snippet, step_index |-> 0]),
                 Tail(step_results), idx)
          ELSE AddStepResults_unstamped(all_results, Tail(step_results), idx)
\* AddStepResults without the test that the url is non-empty
RECURSIVE AddStepResults_keeps_empty_url(_, _, _)
AddStepResults_keeps_empty_url(all_results, step_results, idx) ==
  IF step_results = <<>> THEN all_results
  ELSE LET result == Head(step_results)
           url == Get(result, "url", "")
           seen_urls == {all_results[i].url : i \in 1..Len(all_results)}
       IN IF url \notin seen_urls
          THEN AddStepResults_keeps_empty_url(
                 Append(all_results,
                        [title |-> result.title, url |-> result.url,
                         snippet |-> result.snippet, step_index |-> idx]),
                 Tail(step_results), idx)
          ELSE AddStepResults_keeps_empty_url(all_results, Tail(step_results), idx)
RECURSIVE AddStepResults(_, _, _)
AddStepResults(all_results, step_results, idx) ==
  IF step_results = <<>> THEN all_results
  ELSE LET result == Head(step_results)
           url == Get(result, "url", "")
           seen_urls == {all_results[i].url : i \in 1..Len(all_results)}
       IN IF url # "" /\ url \notin seen_urls
          THEN AddStepResults(
                 Append(all_results,
                        [title |-> result.title, url |-> result.url,
                         snippet |-> result.snippet, step_index |-> idx]),
                 Tail(step_results), idx)
          ELSE AddStepResults(all_results, Tail(step_results), idx)

\* ResearchLoop ending the stage at any exception of a search
RECURSIVE ResearchLoop_stops_on_error(_, _, _, _)
ResearchLoop_stops_on_error(st, backends, idx, all_results) ==
  IF idx >= Len(st.plan)
  THEN [aborted |-> FALSE, all_results |-> all_results, io |-> <<>>]
  ELSE LET found == search(st.search_provider, st.num_results, backends[idx + 1]) IN
       IF found.exc = "none"
       THEN LET rest == ResearchLoop_stops_on_error(st, backends, idx + 1,
                                     AddStepResults(all_results, found.results, idx))
                sleep == IF idx < Len(st.plan) - 1 THEN <<SleepCall>> ELSE <<>>
            IN [rest EXCEPT !.io = <<SearchCall(idx, found)>> \o sleep \o rest.io]
       ELSE IF found.exc # "none"
       THEN [aborted |-> TRUE, all_results |-> <<>>,
             io |-> <<SearchCall(idx, found)>>]
       ELSE LET rest == ResearchLoop_stops_on_error(st, backends, idx + 1, all_results)
            IN [rest EXCEPT !.io = <<SearchCall(idx, found)>> \o rest.io]

\* ResearchLoop going on to the next step after a ValueError
RECURSIVE ResearchLoop_tries_on(_, _, _, _)
ResearchLoop_tries_on(st, backends, idx, all_results) ==
  IF idx >= Len(st.plan)
  THEN [aborted |-> FALSE, all_results |-> all_results, io |-> <<>>]
  ELSE LET found == search(st.search_provider, st.num_results, backends[idx + 1]) IN
       IF found.exc = "none"
       THEN LET rest == ResearchLoop_tries_on(st, backends, idx + 1,
                                     AddStepResults(all_results, found.results, idx))
                sleep == IF idx < Len(st.plan) - 1 THEN <<SleepCall>> ELSE <<>>
            IN [rest EXCEPT !.io = <<SearchCall(idx, found)>> \o sleep \o rest.io]
       ELSE IF found.exc = "ValueError"
       THEN LET rest == ResearchLoop_tries_on(st, backends, idx + 1, <<>>)
            IN [aborted |-> TRUE, all_results |-> <<>>,
                io |-> <<SearchCall(idx, found)>> \o rest.io]
       ELSE LET rest == ResearchLoop_tries_on(st, backends, idx + 1, all_results)
            IN [rest EXCEPT !.io = <<SearchCall(idx, found)>> \o rest.io]

\* lines 49-80: the loop over the plan from step idx (0-based) on; backends[i]
\* is what the backend does at the search of step i (1-based)
RECURSIVE ResearchLoop(_, _, _, _)
ResearchLoop(st, backends, idx, all_results) ==
  IF idx >= Len(st.plan)
  THEN [aborted |-> FALSE, all_results |-> all_results, io |-> <<>>]
  ELSE LET found == search(st.search_provider, st.num_results, backends[idx + 1]) IN
       IF found.exc = "none"
       THEN LET rest == ResearchLoop(st, backends, idx + 1,
                                     AddStepResults(all_results, found.results, idx))
                sleep == IF idx < Len(st.plan) - 1 THEN <<SleepCall>> ELSE <<>>
            IN [rest EXCEPT !.io = <<SearchCall(idx, found)>> \o sleep \o rest.io]
       ELSE IF found.exc = "ValueError"
       THEN [aborted |-> TRUE, all_results |-> <<>>,
             io |-> <<SearchCall(idx, found)>>]
       ELSE LET rest == ResearchLoop(st, backends, idx + 1, all_results)
            IN [rest EXCEPT !.io = <<SearchCall(idx, found)>> \o rest.io]

researcher_node(st, backends) ==
  IF st.plan = <<>>
  THEN Ret([results |-> <<>>,
            messages |-> <<AIMessage(<<Warn, "  No research plan to execute">>)>>])
  ELSE LET loop == ResearchLoop(st, backends, 0, <<>>) IN
       Did(loop.io,
         IF loop.aborted
         THEN Ret([results |-> <<>>,
                   messages |-> <<AIMessage(<<Warn, "  Search configuration error: ",
                                             "ValueError">>)>>])
         ELSE IF loop.all_results = <<>>
         THEN Ret([results |-> <<>>,
                   messages |-> <<AIMessage(<<Warn,
                                   "  No search results found for any step">>)>>])
         ELSE Ret([results |-> loop.all_results,
                   messages |-> <<AIMessage(<<"Found ",
                                   ToString(Len(loop.all_results)),
                                   " unique results across ",
                                   ToString(Len(st.plan)), " research steps">>)>>]))

(***************************************************************************)
(* agents/writer.py                                                        *)
(***************************************************************************)
\* results[:20]: the number of results the writer considers
MaxSources == 20

NoResultsDraft == <<"No research results available to synthesize.">>

\* lines 61-66: the source listing reads r['title'], r['url'], r['snippet']
ListingRaises(results) ==
  \E i \in 1..Len(Take(results, MaxSources)) :
    ~({"title", "url", "snippet"} \subseteq DOMAIN results[i])

\* lines 61-66: the sources listed in the prompt, numbered from 1
SourceListing(results) ==
  [i \in 1..Len(Take(results, MaxSources)) |->
     [number |-> i, title |-> results[i].title, url |-> results[i].url,
      content |-> results[i].snippet]]

\* line 41: "if not results"
NoResults_never(results) == FALSE
NoResults(results) == results = <<>>

\* lines 55 and 118: the error string put in draft
ErrorDraft_empty(text, e) == <<>>
ErrorDraft(text, e) == <<text, e>>

\* ExtractReferences putting every new url in front
RECURSIVE ExtractReferences_prepends(_, _)
ExtractReferences_prepends(results, references) ==
  IF results = <<>> THEN references
  ELSE LET url == Get(Head(results), "url", "")
           seen_urls == {references[i] : i \in 1..Len(references)}
       IN IF url # "" /\ url \notin seen_urls
          THEN ExtractReferences_prepends(Tail(results), <<url>> \o references)
          ELSE ExtractReferences_prepends(Tail(results), references)

\* lines 99-106: the unique urls of the first 20 results, in order
RECURSIVE ExtractReferences(_, _)
ExtractReferences(results, references) ==
  IF results = <<>> THEN references
  ELSE LET url == Get(Head(results), "url", "")
           seen_urls == {references[i] : i \in 1..Len(references)}
       IN IF url # "" /\ url \notin seen_urls
          THEN ExtractReferences(Tail(results), Append(references, url))
          ELSE ExtractReferences(Tail(results), references)

\* lines 92-114 reading every result instead of results[:20]
WriterSuccess_unbounded(results, response) ==
  LET references == ExtractReferences(results, <<>>) IN
  Ret([draft |-> Strip(response.text),
       references |-> references,
       messages |-> <<AIMessage(<<"Draft complete with ",
                                 ToString(Len(references)), " references">>)>>])

\* lines 92-114 with the writer marking the revision itself
WriterSuccess_revises(results, response) ==
  LET references == ExtractReferences(Take(results, MaxSources), <<>>) IN
  Ret([draft |-> Strip(response.text),
       references |-> references,
       revised_once |-> TRUE,
       messages |-> <<AIMessage(<<"Draft complete with ",
                                 ToString(Len(references)), " references">>)>>])

\* lines 92-114: the update made of the model's answer
WriterSuccess(results, response) ==
  LET references == ExtractReferences(Take(results, MaxSources), <<>>) IN
  Ret([draft |-> Strip(response.text),
       references |-> references,
       messages |-> <<AIMessage(<<"Draft complete with ",
                                 ToString(Len(references)), " references">>)>>])

writer_node(st, env, response) ==
  LET results == Get(st, "results", <<>>) IN
  IF NoResults(results)
  THEN Ret([draft |-> NoResultsDraft,
            references |-> <<>>,
            messages |-> <<AIMessage(<<Warn, "  No results to write about">>)>>])
  ELSE IF get_llm(st.llm_provider, env) = "ValueError"
  THEN Did(<<LlmCall("ValueError")>>,
           Ret([draft |-> ErrorDraft("Error: Could not initialize LLM - ", "ValueError"),
                references |-> <<>>,
                messages |-> <<AIMessage(<<Warn, "  Writer error: ", "ValueError">>)>>]))
  ELSE IF ListingRaises(results) THEN Did(<<LlmCall("none")>>, Raise("KeyError"))
  ELSE Did(<<LlmCall("none"), InvokeCall(response)>>,
    IF response.exc # "none"
    THEN Ret([draft |-> ErrorDraft("Error generating brief: ", response.exc),
              references |-> <<>>,
              messages |-> <<AIMessage(<<Warn, "  Writing failed: ", response.exc>>)>>])
    ELSE WriterSuccess(results, response))

(***************************************************************************)
(* agents/reviewer.py                                                      *)
(***************************************************************************)
NoDraftFinal == <<"No draft available.">>

\* line 82: "NEEDS_REVISION" in review.upper()
NeedsRevision(review) == Contains(<<"NEEDS_REVISION">>, Upper(review))

\* line 41: "if not draft"
NoDraft_never(draft) == FALSE
NoDraft(draft) == draft = <<>>

\* lines 52-57 and 104-111: the draft is approved as it is
AutoApprove_leaves_final(draft, content) ==
  Ret([messages |-> <<AIMessage(content)>>])
AutoApprove(draft, content) ==
  Ret([final |-> draft, messages |-> <<AIMessage(content)>>])

\* lines 82-102: the decision taken on the review text
ReviewVerdict_unbounded(draft, revised_once, review) ==
  LET needs_revision == NeedsRevision(review) IN
  IF needs_revision
  THEN Ret([revised_once |-> TRUE,
            messages |-> <<AIMessage(<<"Requesting revision: ">> \o review)>>])
  ELSE Ret([final |-> draft,
            messages |-> <<AIMessage(<<"Research complete">>)>>])
\* the verdict of a reviewer that also hands the draft back emptied
ReviewVerdict_rewrites_draft(draft, revised_once, review) ==
  LET needs_revision == NeedsRevision(review) IN
  IF needs_revision /\ ~revised_once
  THEN Ret([revised_once |-> TRUE,
            draft |-> <<>>,
            messages |-> <<AIMessage(<<"Requesting revision: ">> \o review)>>])
  ELSE Ret([final |-> draft,
            messages |-> <<AIMessage(IF ~needs_revision
                                     THEN <<"Research complete">>
                                     ELSE <<"Revision limit reached, finalizing">>)>>])
ReviewVerdict(draft, revised_once, review) ==
  LET needs_revision == NeedsRevision(review) IN
  IF needs_revision /\ ~revised_once
  THEN Ret([revised_once |-> TRUE,
            messages |-> <<AIMessage(<<"Requesting revision: ">> \o review)>>])
  ELSE Ret([final |-> draft,
            messages |-> <<AIMessage(IF ~needs_revision
                                     THEN <<"Research complete">>
                                     ELSE <<"Revision limit reached, finalizing">>)>>])

reviewer_node(st, env, response) ==
  LET draft == Get(st, "draft", <<>>)
      revised_once == Get(st, "revised_once", FALSE)
  IN
  IF NoDraft(draft)
  THEN Ret([final |-> NoDraftFinal,
            messages |-> <<AIMessage(<<Warn, "  No draft to review">>)>>])
  ELSE IF get_llm(st.llm_provider, env) = "ValueError"
  THEN Did(<<LlmCall("ValueError")>>,
           AutoApprove(draft, <<Warn, "  Reviewer unavailable, auto-approving: ",
                                "ValueError">>))
  ELSE Did(<<LlmCall("none"), InvokeCall(response)>>,
    IF response.exc # "none"
    THEN AutoApprove(draft, <<Warn, "  Review failed, auto-approving: ", response.exc>>)
    ELSE ReviewVerdict(draft, revised_once, response.text))

(***************************************************************************)
(* workflow.py                                                             *)
(***************************************************************************)
END == "END"

\* _should_revise without the test of final
_should_revise_ignores_final(st) ==
  IF Get(st, "draft", <<>>) # <<>> /\ ~Get(st, "revised_once", FALSE)
  THEN "writer"
  ELSE END

\* lines 46-64: the conditional edge out of the reviewer
_should_revise(st) ==
  IF Get(st, "final", <<>>) # <<>> THEN END
  ELSE IF Get(st, "draft", <<>>) # <<>> /\ ~Get(st, "revised_once", FALSE)
  THEN "writer"
  ELSE END

\* build_workflow with the edge planner -> writer instead of planner -> researcher
NextNode_skips_research(node, st) ==
  IF node = "planner" THEN "writer"
  ELSE IF node = "researcher" THEN "writer"
  ELSE IF node = "writer" THEN "reviewer"
  ELSE _should_revise(st)

\* lines 93-108 of build_workflow: the node that runs after `node`, given the
\* state its update was merged into
NextNode(node, st) ==
  IF node = "planner" THEN "researcher"
  ELSE IF node = "researcher" THEN "writer"
  ELSE IF node = "writer" THEN "reviewer"
  ELSE _should_revise(st)

\* Merge without the reducer of messages
Merge_replaces(st, update) ==
  [k \in DOMAIN st |-> IF k \in DOMAIN update THEN update[k] ELSE st[k]]

\* The state after a node's update: each key of the update replaces the
\* state's value, except messages, whose reducer is operator.add.
Merge(st, update) ==
  [k \in DOMAIN st |->
     IF k \in DOMAIN update
     THEN (IF k = "messages" THEN st[k] \o update[k] ELSE update[k])
     ELSE st[k]]

\* lines 155-168: the state run_research starts the graph with
initial_state(query, llm_provider, model_name, search_provider, num_results) ==
  [messages |-> <<HumanMessage(query)>>,
   query |-> query,
   plan |-> <<>>,
   results |-> <<>>,
   draft |-> <<>>,
   final |-> <<>>,
   references |-> <<>>,
   revised_once |-> FALSE,
   llm_provider |-> llm_provider,
   model_name |-> model_name,
   search_provider |-> search_provider,
   num_results |-> ClampNumResults(num_results)]

(***************************************************************************)
(* The inputs of a run and what the gateways answer                        *)
(***************************************************************************)
\* the calls of run_research considered
Inputs ==
  { [query |-> <<"solar energy trends">>, llm_provider |-> "anthropic",
     model_name |-> "claude", search_provider |-> "duckduckgo", num_results |-> 12],
    [query |-> <<>>, llm_provider |-> "ollama",
     model_name |-> "llama", search_provider |-> "brave", num_results |-> 0],
    [query |-> <<"ai safety">>, llm_provider |-> "custom",
     model_name |-> "custom-model", search_provider |-> "serper", num_results |-> 3],
    [query |-> <<"ai safety">>, llm_provider |-> "openai",
     model_name |-> "gpt", search_provider |-> "google", num_results |-> 5] }

StepText(i) == <<"step " \o ToString(i)>>

\* a JSON array of n strings
JsonSteps(n) == PyList([i \in 1..n |-> PyStr(StepText(i))])

\* n non-empty lines, padded with blanks and separated by empty lines
RECURSIVE TextSteps(_)
TextSteps(n) ==
  IF n = 0 THEN <<" ">>
  ELSE TextSteps(n - 1) \o <<"\n", " ">> \o StepText(n) \o <<" ", "\n">>

\* the longest list of steps the model answers with
MaxSteps == 6

\* what the model answers to the planner's prompt
PlannerResponses ==
  { JsonResponse(<<"[..]">>, JsonSteps(n)) : n \in {0, 1, 2, 5, MaxSteps} }
  \cup { JsonResponse(<<"[..]">>,
                      PyList(<<PyStr(StepText(1)), PyStr(StepText(2)), PyNum(3)>>)),
         JsonResponse(<<"{..}">>, PyDict),
         JsonResponse(<<"7">>, PyNum(7)),
         JsonResponse(<<"'text'">>, PyStr(<<"text">>)) }
  \cup { TextResponse(TextSteps(n)) : n \in {0, 1, 2, MaxSteps} }
  \cup { InvokeFails }

\* what the model answers to the writer's prompt
WriterResponses ==
  { InvokeOk(<<"Solar grows [1].">>),
    InvokeOk(<<" ", "Solar grows [1].", "\n">>),
    InvokeOk(<<" ", "\n">>),
    InvokeFails }

\* what the model answers to the reviewer's prompt
ReviewerResponses ==
  { InvokeOk(<<"APPROVED">>),
    InvokeOk(<<"NEEDS_REVISION", ": claim 2 has no citation">>),
    InvokeOk(<<"Verdict: ", "needs_revision">>),
    InvokeOk(<<"ok">>),
    InvokeFails }

Url(i) == "https://u" \o ToString(i)

\* an item as the backend of `provider` sends it
Item(provider, title, url) ==
  LET keys == ItemKeys(provider) IN
  (keys.url :> url) @@ (keys.snippet :> "snippet of " \o title) @@ [title |-> title]

\* the item lists a backend sends back: ten items, eleven items that start
\* where the first list ends, and a short list with a repeated url, an
\* item without url, a url of the first list and an item without title
ItemsA(provider) ==
  [i \in 1..10 |-> Item(provider, "A" \o ToString(i), Url(i))]

ItemsB(provider) ==
  [i \in 1..11 |-> Item(provider, "B" \o ToString(i), Url(9 + i))]

ItemsC(provider) ==
  LET keys == ItemKeys(provider) IN
  << Item(provider, "C1", Url(31)),
     Item(provider, "C2", Url(31)),
     [title |-> "C3"],
     Item(provider, "C4", Url(5)),
     (keys.url :> Url(32)) >>

Backend(env, a1, a2, a3) == [env |-> env, attempts |-> <<a1, a2, a3>>]

\* what the backend of `provider` may do at one search call
Backends(provider) ==
  LET none == AttemptOk(<<>>)
      err == AttemptFails(IF provider = "duckduckgo" THEN "Exception"
                          ELSE "RequestException")
  IN { Backend(AllKeys, AttemptOk(ItemsA(provider)), none, none),
       Backend(AllKeys, AttemptOk(ItemsB(provider)), none, none),
       Backend(AllKeys, AttemptOk(ItemsC(provider)), none, none),
       Backend(AllKeys, none, none, none),
       Backend(AllKeys, err, AttemptOk(ItemsA(provider)), none),
       Backend(AllKeys, err, err, err),
       Backend(NoKeys, AttemptOk(ItemsB(provider)), none, none) }
  \cup (IF provider = "duckduckgo"
        THEN {Backend(AllKeys, AttemptFails("ImportError"), none, none)}
        ELSE {Backend(AllKeys, AttemptFails("AttributeError"), none, none)})

\* the search call of a step ended in a failure: it raised, or the gateway
\* gave up on the backend's errors
SearchFailed(st, backend) ==
  \/ search(st.search_provider, st.num_results, backend).exc # "none"
  \/ /\ st.search_provider = "duckduckgo"
     /\ backend.attempts[1].kind # "ok"
  \/ /\ st.search_provider \in {"brave", "serper"}
     /\ \A i \in 1..MaxRetries : backend.attempts[i].kind # "ok"

(***************************************************************************)
(* run_research: the graph is streamed node by node                        *)
(***************************************************************************)
Running == [status |-> "running", error |-> "none", value |-> None]

\* One entry of `calls` per node invocation: the node, whether a gateway call
\* of the invocation failed, whether the reviewer's model answered that the
\* draft needs revision, and revised_once as the node read it.
Call(node, failed, flagged) ==
  [node |-> node, failed |-> failed, flagged |-> flagged,
   revised_before |-> state.revised_once]

Init ==
  /\ \E in \in Inputs :
       state = initial_state(in.query, in.llm_provider, in.model_name,
                             in.search_provider, in.num_results)
  /\ pc = "planner"
  /\ final_state = None
  /\ outcome = Running
  /\ calls = <<>>
  /\ io = <<>>
  /\ runs = <<>>
  /\ memory = <<>>

\* graph.stream runs `node`, merges its update into the state, follows the
\* edge out of the node and yields {node: update}; an exception of the node
\* leaves run_research
Step(node, result, call) ==
  /\ calls' = Append(calls, call)
  /\ io' = result.io
  /\ UNCHANGED <<runs, memory>>
  /\ IF result.exc = "none"
     THEN /\ state' = Merge(state, result.update)
          /\ final_state' = result.update
          /\ pc' = NextNode(node, state')
          /\ UNCHANGED outcome
     ELSE /\ outcome' = [status |-> "raised", error |-> result.exc, value |-> None]
          /\ pc' = END
          /\ UNCHANGED <<state, final_state>>

LlmFailed(env, response) ==
  get_llm(state.llm_provider, env) # "none" \/ response.exc # "none"

Planner ==
  /\ pc = "planner"
  /\ outcome.status = "running"
  /\ \E env \in Envs, response \in PlannerResponses :
       Step("planner", planner_node(state, env, response),
            Call("planner", LlmFailed(env, response), FALSE))

Researcher ==
  /\ pc = "researcher"
  /\ outcome.status = "running"
  /\ \E backends \in [1..Len(state.plan) -> Backends(state.search_provider)] :
       Step("researcher", researcher_node(state, backends),
            Call("researcher",
                 \E i \in 1..Len(state.plan) : SearchFailed(state, backends[i]),
                 FALSE))

Writer ==
  /\ pc = "writer"
  /\ outcome.status = "running"
  /\ \E env \in Envs, response \in WriterResponses :
       Step("writer", writer_node(state, env, response),
            Call("writer", state.results # <<>> /\ LlmFailed(env, response), FALSE))

Reviewer ==
  /\ pc = "reviewer"
  /\ outcome.status = "running"
  /\ \E env \in Envs, response \in ReviewerResponses :
       Step("reviewer", reviewer_node(state, env, response),
            Call("reviewer",
                 state.draft # <<>> /\ LlmFailed(env, response),
                 /\ state.draft # <<>>
                 /\ ~LlmFailed(env, response)
                 /\ NeedsRevision(response.text)))

\* lines 173-180: the stream is exhausted; the last update is returned
Return ==
  /\ pc = END
  /\ outcome.status = "running"
  /\ outcome' = IF final_state = None \/ DOMAIN final_state = {}
                THEN [status |-> "raised", error |-> "RuntimeError", value |-> None]
                ELSE [status |-> "returned", error |-> "none", value |-> final_state]
  /\ UNCHANGED <<state, pc, final_state, calls, io, runs, memory>>

Next == Planner \/ Researcher \/ Writer \/ Reviewer \/ Return

Spec == Init /\ [][Next]_vars

\* the stream is consumed until it is exhausted, and run_research then returns
FairSpec == Spec /\ WF_vars(Next)

(***************************************************************************)
(* The Review stage on its own: reviewer_node invoked by the graph on a     *)
(* state with any draft and either value of revised_once (reviewer.py:20-24 *)
(* and the example of its docstring)                                        *)
(***************************************************************************)
Drafts ==
  { <<>>,
    NoResultsDraft,
    <<"Solar grows [1].">>,
    <<"Error generating brief: ", "Exception">> }

ReviewInit ==
  /\ \E in \in Inputs, draft \in Drafts, revised_once \in BOOLEAN :
       state = [initial_state(in.query, in.llm_provider, in.model_name,
                              in.search_provider, in.num_results)
                  EXCEPT !.draft = draft, !.revised_once = revised_once]
  /\ pc = "reviewer"
  /\ final_state = None
  /\ outcome = Running
  /\ calls = <<>>
  /\ io = <<>>
  /\ runs = <<>>
  /\ memory = <<>>

ReviewNext == Reviewer \/ Return

ReviewSpec == ReviewInit /\ [][ReviewNext]_vars

(***************************************************************************)
(* The search gateway on its own: search(query, provider, num_results)      *)
(* called with any provider name and any count                              *)
(***************************************************************************)
Providers == {"duckduckgo", "brave", "serper", "google"}

\* the counts asked for
MinRequested == -1
MaxRequested == 12

\* what one attempt at the backend of `provider` may end in
Attempts(provider) ==
  { AttemptOk(ItemsB(provider)), AttemptOk(ItemsC(provider)) }
  \cup (IF provider = "duckduckgo"
        THEN {AttemptFails("Exception"), AttemptFails("ImportError")}
        ELSE {AttemptFails("RequestException"), AttemptFails("AttributeError")})

SearchBackends(provider) ==
  { Backend(env, a1, a2, a3) :
      env \in Envs, a1 \in Attempts(provider), a2 \in Attempts(provider),
      a3 \in Attempts(provider) }

SearchInit ==
  /\ \E provider \in Providers, k \in MinRequested..MaxRequested :
       state = [query |-> <<"solar energy trends">>,
                search_provider |-> provider, num_results |-> k]
  /\ pc = "search"
  /\ final_state = None
  /\ outcome = Running
  /\ calls = <<>>
  /\ io = <<>>
  /\ runs = <<>>
  /\ memory = <<>>

\* search(query, provider, num_results) is called once; calls keeps what the
\* backend did, io what the call did and returned
Search ==
  /\ pc = "search"
  /\ \E backend \in SearchBackends(state.search_provider) :
       /\ calls' = <<[node |-> "search", backend |-> backend]>>
       /\ io' = <<SearchCall(0, search(state.search_provider, state.num_results,
                                       backend))>>
  /\ pc' = END
  /\ UNCHANGED <<state, final_state, outcome, runs, memory>>

SearchNext == Search

SearchSpec == SearchInit /\ [][SearchNext]_vars

(***************************************************************************)
(* Concurrent calls of run_research: each call builds its graph and streams *)
(* it; the graph keeps the state in the checkpoint of its MemorySaver under *)
(* the call's thread_id, reads it before a node runs and writes it after    *)
(***************************************************************************)
Runs == {1, 2}

\* build_workflow sharing one MemorySaver between its calls
MemorySaver_shared(r) == 1
\* line 111: every call of build_workflow makes a MemorySaver of its own; the
\* saver is named after the call that made it
MemorySaver(r) == r

\* the values hash(query) takes: two different queries may get the same
HashValues == {0, 1}

\* line 171: f"research_{hash(query)}"
thread_id(h) == "research_" \o ToString(h)

\* the store of a saver after put(thread_id, checkpoint)
Put(store, tid, checkpoint) ==
  [t \in DOMAIN store \cup {tid} |-> IF t = tid THEN checkpoint ELSE store[t]]

\* the gateway answers a node of a concurrent run may get
Answers(node, st) ==
  IF node = "planner"
  THEN { [env |-> AllKeys, response |-> x] :
           x \in {JsonResponse(<<"[..]">>, JsonSteps(2)), InvokeFails} }
  ELSE IF node = "researcher"
  THEN { [backends |-> b] :
           b \in [1..Len(st.plan) ->
                   { Backend(AllKeys, AttemptOk(ItemsC(st.search_provider)),
                             AttemptOk(<<>>), AttemptOk(<<>>)),
                     Backend(NoKeys, AttemptOk(<<>>), AttemptOk(<<>>),
                             AttemptOk(<<>>)) }] }
  ELSE IF node = "writer"
  THEN { [env |-> AllKeys, response |-> x] :
           x \in {InvokeOk(<<"Solar grows [1].">>), InvokeFails} }
  ELSE { [env |-> AllKeys, response |-> x] :
           x \in {InvokeOk(<<"APPROVED">>),
                  InvokeOk(<<"NEEDS_REVISION", ": claim 2 has no citation">>)} }

\* lines 85-88: the node function of a node, on a state and gateway answers
Apply(node, st, answer) ==
  IF node = "planner" THEN planner_node(st, answer.env, answer.response)
  ELSE IF node = "researcher" THEN researcher_node(st, answer.backends)
  ELSE IF node = "writer" THEN writer_node(st, answer.env, answer.response)
  ELSE reviewer_node(st, answer.env, answer.response)

\* lines 177-180: what run_research ends with, given the last update
Outcome(update) ==
  IF update = None \/ DOMAIN update = {}
  THEN [status |-> "raised", error |-> "RuntimeError", value |-> None]
  ELSE [status |-> "returned", error |-> "none", value |-> update]

\* the arguments of the concurrent calls
RunInputs == {in \in Inputs : in.search_provider \in {"duckduckgo", "serper"}}

ConcurrentInit ==
  /\ \E args \in [Runs -> RunInputs] :
       /\ \A r, o \in Runs : r # o => args[r].query # args[o].query
       /\ \E hash \in [{args[r].query : r \in Runs} -> HashValues] :
            runs = [r \in Runs |->
                      [args |-> args[r],
                       thread_id |-> thread_id(hash[args[r].query]),
                       pc |-> "start",
                       overlapped |-> FALSE,
                       final_state |-> None,
                       outcome |-> Running,
                       answers |-> <<>>]]
  /\ memory = [saver \in Runs |-> <<>>]
  /\ state = None
  /\ pc = END
  /\ final_state = None
  /\ outcome = Running
  /\ calls = <<>>
  /\ io = <<>>

\* lines 152-174: run r builds its graph and starts the stream: the input is
\* written over the checkpoint its saver holds under the thread_id, if any
Start(r) ==
  /\ runs[r].pc = "start"
  /\ LET saver == MemorySaver(r)
         tid == runs[r].thread_id
         args == runs[r].args
         input == initial_state(args.query, args.llm_provider, args.model_name,
                                args.search_provider, args.num_results)
         checkpoint == IF tid \in DOMAIN memory[saver]
                       THEN Merge(memory[saver][tid], input)
                       ELSE input
     IN /\ memory' = [memory EXCEPT ![saver] = Put(@, tid, checkpoint)]
        /\ runs' = [runs EXCEPT
                      ![r].pc = "planner",
                      ![r].overlapped =
                         \E o \in Runs \ {r} :
                           /\ runs[o].pc \notin {"start", END}
                           /\ runs[o].outcome.status = "running"]
  /\ UNCHANGED <<state, pc, final_state, outcome, calls, io>>

\* one step of the stream of run r: the node reads the checkpoint, its update
\* is merged and written back, and {node: update} is yielded
Stage(r, node) ==
  /\ runs[r].pc = node
  /\ runs[r].outcome.status = "running"
  /\ LET saver == MemorySaver(r)
         tid == runs[r].thread_id
         st == memory[saver][tid]
     IN \E answer \in Answers(node, st) :
          LET result == Apply(node, st, answer) IN
          IF result.exc = "none"
          THEN /\ memory' = [memory EXCEPT
                               ![saver] = Put(@, tid, Merge(st, result.update))]
               /\ runs' = [runs EXCEPT
                             ![r].pc = NextNode(node, Merge(st, result.update)),
                             ![r].final_state = result.update,
                             ![r].answers = Append(@, answer)]
          ELSE /\ runs' = [runs EXCEPT
                             ![r].pc = END,
                             ![r].outcome = [status |-> "raised",
                                             error |-> result.exc,
                                             value |-> None],
                             ![r].answers = Append(@, answer)]
               /\ UNCHANGED memory
  /\ UNCHANGED <<state, pc, final_state, outcome, calls, io>>

RunPlanner(r) == Stage(r, "planner")
RunResearcher(r) == Stage(r, "researcher")
RunWriter(r) == Stage(r, "writer")
RunReviewer(r) == Stage(r, "reviewer")

\* lines 177-180 in run r
Finish(r) ==
  /\ runs[r].pc = END
  /\ runs[r].outcome.status = "running"
  /\ runs' = [runs EXCEPT ![r].outcome = Outcome(runs[r].final_state)]
  /\ UNCHANGED <<state, pc, final_state, outcome, calls, io, memory>>

ConcurrentNext ==
  \E r \in Runs :
    \/ Start(r)
    \/ RunPlanner(r)
    \/ RunResearcher(r)
    \/ RunWriter(r)
    \/ RunReviewer(r)
    \/ Finish(r)

ConcurrentSpec == ConcurrentInit /\ [][ConcurrentNext]_vars

\* run_research executed alone from state st at `node`, given the gateway
\* answers of its stages in order
RECURSIVE Alone(_, _, _, _)
Alone(st, node, update, answers) ==
  IF node = END THEN Outcome(update)
  ELSE IF answers = <<>> THEN Running
  ELSE LET result == Apply(node, st, Head(answers)) IN
       IF result.exc # "none"
       THEN [status |-> "raised", error |-> result.exc, value |-> None]
       ELSE Alone(Merge(st, result.update),
                  NextNode(node, Merge(st, result.update)),
                  result.update, Tail(answers))

(***************************************************************************)
(* app.py: the web interface.  The value of a dropdown is the str of the   *)
(* chosen entry, here the sequence of its characters, so that str.lower()  *)
(* acts on it; Join gives the provider name the gateways compare.          *)
(***************************************************************************)
UpperCase ==
  <<"A", "B", "C", "D", "E", "F", "G", "H", "I", "J", "K", "L", "M",
    "N", "O", "P", "Q", "R", "S", "T", "U", "V", "W", "X", "Y", "Z">>
LowerCase ==
  <<"a", "b", "c", "d", "e", "f", "g", "h", "i", "j", "k", "l", "m",
    "n", "o", "p", "q", "r", "s", "t", "u", "v", "w", "x", "y", "z">>

\* str.lower(), character by character
LowerChar(c) ==
  IF \E i \in 1..Len(UpperCase) : UpperCase[i] = c
  THEN LowerCase[CHOOSE i \in 1..Len(UpperCase) : UpperCase[i] = c]
  ELSE c

Lower(t) == [i \in 1..Len(t) |-> LowerChar(t[i])]

\* the str made of the characters of t
RECURSIVE Join(_)
Join(t) == IF t = <<>> THEN "" ELSE Head(t) \o Join(Tail(t))

\* providers/search.py, lines 188-213: name and display_name of each provider
get_available_providers ==
  << [name |-> "duckduckgo",
      display_name |-> <<"D", "u", "c", "k", "D", "u", "c", "k", "G", "o", " ", "(", "F", "r", "e", "e", ")">>],
     [name |-> "brave",
      display_name |-> <<"B", "r", "a", "v", "e", " ", "S", "e", "a", "r", "c", "h", " ", "(", "2", "K", " ", "f", "r", "e", "e", "/", "m", "o", "n", "t", "h", ")">>],
     [name |-> "serper",
      display_name |-> <<"S", "e", "r", "p", "e", "r", ".", "d", "e", "v", " ", "(", "2", ".", "5", "K", " ", "f", "r", "e", "e", "/", "m", "o", "n", "t", "h", ")">>] >>

\* providers/llm.py, lines 116-143: the first model listed for each provider
get_available_models(provider) ==
  IF provider = "anthropic" THEN <<"claude-sonnet-4-5-20250929">>
  ELSE IF provider = "openai" THEN <<"gpt-4o">>
  ELSE IF provider = "ollama" THEN <<"llama3.1:70b">>
  ELSE IF provider = "custom" THEN <<"custom-model">>
  ELSE <<>>

\* lines 162-167: the choices of the LLM provider dropdown
llm_choices ==
  << <<"A", "n", "t", "h", "r", "o", "p", "i", "c">>,
     <<"O", "p", "e", "n", "A", "I">>,
     <<"O", "l", "l", "a", "m", "a">>,
     <<"C", "u", "s", "t", "o", "m">> >>

\* lines 185-187: the choices of the search provider dropdown
search_choices ==
  [i \in 1..Len(get_available_providers) |-> get_available_providers[i].display_name]
search_values ==
  [i \in 1..Len(get_available_providers) |-> get_available_providers[i].name]

\* lines 197-204: the ends of the slider "Results per Step"
SliderMin == 1
SliderMax == 10

\* lines 77-93 of research_interface: the arguments run_research is called
\* with, None when the query is blank and no run starts
research_interface(query, llm_provider, model_name, search_provider, num_results) ==
  IF Strip(query) = <<>> THEN None
  ELSE [query |-> query,
        llm_provider |-> Join(Lower(llm_provider)),
        model_name |-> model_name,
        search_provider |-> Join(Lower(search_provider)),
        num_results |-> num_results]

\* what the user may submit: a query or a blank, any choice of the two
\* provider dropdowns, the model the interface selects for the LLM provider
\* (lines 169-181 and update_model_choices), either end of the slider
Submissions ==
  { research_interface(query, llm_choices[i],
                       get_available_models(Join(Lower(llm_choices[i])))[1],
                       search_choices[j], n) :
      query \in {<<"ai safety">>, <<" ">>},
      i \in 1..Len(llm_choices),
      j \in 1..Len(search_choices),
      n \in {SliderMin, SliderMax} }

\* run_research as research_interface calls it
InterfaceInit ==
  /\ \E in \in Submissions \ {None} :
       state = initial_state(in.query, in.llm_provider, in.model_name,
                             in.search_provider, in.num_results)
  /\ pc = "planner"
  /\ final_state = None
  /\ outcome = Running
  /\ calls = <<>>
  /\ io = <<>>
  /\ runs = <<>>
  /\ memory = <<>>

InterfaceSpec == InterfaceInit /\ [][Next]_vars

(***************************************************************************)
(* Properties                                                              *)
(***************************************************************************)
Last(s) == s[Len(s)]

\* the nodes invoked so far, in order
Nodes == [i \in 1..Len(calls) |-> calls[i].node]

IsPrefix(s, t) == Len(s) <= Len(t) /\ SubSeq(t, 1, Len(s)) = s

OnePass == <<"planner", "researcher", "writer", "reviewer">>
TwoPasses == OnePass \o <<"writer", "reviewer">>

Returned == outcome.status = "returned"
Raised == outcome.status = "raised"

\* the invocations of the reviewer so far
ReviewCalls == SelectSeq(calls, LAMBDA c : c.node = "reviewer")

IsWarning(message) == message.content # <<>> /\ Head(message.content) = Warn

\* the keys a node's update may carry
UpdateKeys(node) ==
  IF node = "planner" THEN {{"plan", "messages"}}
  ELSE IF node = "researcher" THEN {{"results", "messages"}}
  ELSE IF node = "writer" THEN {{"draft", "references", "messages"}}
  ELSE {{"final", "messages"}, {"revised_once", "messages"}}

\* update is a state update `node` may return: its own keys, one message
ValidUpdate(node, update) ==
  /\ update # None
  /\ DOMAIN update \in UpdateKeys(node)
  /\ Len(update.messages) = 1

\* C1: for a non-empty query, whatever the gateways do, run_research ends by
\* returning a state whose final is non-empty.
C1_ReturnsNonEmptyFinal ==
  (state.query # <<>> /\ outcome.status # "running")
    => (Returned /\ Get(outcome.value, "final", <<>>) # <<>>)

\* C2: when every review answers "needs revision", the run goes back from
\* the reviewer to the writer exactly once and returns with final = draft and
\* revised_once set.
C2_AlwaysNeedsRevisionLoopsOnce ==
  (/\ Returned
   /\ ReviewCalls # <<>>
   /\ \A i \in 1..Len(ReviewCalls) : ReviewCalls[i].flagged)
    => (/\ Nodes = TwoPasses
        /\ state.final # <<>>
        /\ state.final = state.draft
        /\ state.revised_once)

\* C3: revised_once starts false, is changed only by the reviewer, and once
\* true stays true (so it goes from false to true at most once).
C3_RevisedOnceMonotone ==
  /\ ~state.revised_once
  /\ [][/\ state.revised_once => state'.revised_once
        /\ state'.revised_once # state.revised_once => pc = "reviewer"]_vars

C3_Witness == Returned /\ state.revised_once

\* C4: the record run_research returns carries plan, results, final,
\* references and messages.
C4_ReturnCarriesAllFields ==
  Returned =>
    {"plan", "results", "final", "references", "messages"}
      \subseteq DOMAIN outcome.value

\* C5: run_research returns only with final set, and raises only the
\* incomplete-workflow error, and only when final was not set.
C5_FailsOnlyWithoutFinal ==
  /\ Returned => state.final # <<>>
  /\ Raised => (outcome.error = "RuntimeError" /\ state.final = <<>>)

\* C6, as claimed: no node's exception leaves run_research, and every node
\* invocation in which a gateway call failed returns a valid update whose
\* message is a warning.
C6_FailureCarriesWarning ==
  /\ Raised => outcome.error = "RuntimeError"
  /\ (calls # <<>> /\ Last(calls).failed)
       => (/\ ValidUpdate(Last(calls).node, final_state)
           /\ IsWarning(final_state.messages[1]))

\* C6, amended: no node's exception leaves run_research; every node
\* invocation returns a valid update; the update's message is a warning when
\* a model call of the planner, the writer or the reviewer failed, and when
\* a search failed and the researcher returns no results.
C6_StagesDegrade ==
  /\ Raised => outcome.error = "RuntimeError"
  /\ calls # <<>> => ValidUpdate(Last(calls).node, final_state)
  /\ (/\ calls # <<>>
      /\ Last(calls).failed
      /\ (Last(calls).node = "researcher" => final_state.results = <<>>))
       => IsWarning(final_state.messages[1])

C6_Witness ==
  /\ Returned
  /\ calls[1].failed
  /\ calls[2].failed
  /\ state.results = <<>>
  /\ calls[4].failed

\* C7: the nodes run in the order planner, researcher, writer, reviewer,
\* followed by at most one more writer, reviewer; a finished run is one of
\* these two sequences.
C7_StageOrder ==
  /\ IsPrefix(Nodes, TwoPasses)
  /\ pc # END => pc = TwoPasses[Len(Nodes) + 1]
  /\ pc = END => Nodes \in {OnePass, TwoPasses}

C7_Witness == Returned /\ Nodes = OnePass

\* C8: after a review the writer runs next exactly when the review flagged
\* the draft and revised_once was false, the run ends exactly when the review
\* set final, and it never ends with final empty.
C8_ReviewTransition ==
  (calls # <<>> /\ Last(calls).node = "reviewer") =>
    /\ pc = "writer" <=> (Last(calls).flagged /\ ~Last(calls).revised_before)
    /\ pc = END <=> "final" \in DOMAIN final_state
    /\ pc = END => state.final # <<>>

\* C9: final is written by the reviewer only, when it was empty; once it is
\* set no node is invoked, and the run returns it.
C9_FinalSetOnce ==
  /\ [](Returned /\ state.final # <<>> => outcome.value.final = state.final)
  /\ [][/\ state'.final # state.final
             => (pc = "reviewer" /\ state.final = <<>>)
        /\ state.final # <<>> => calls' = calls]_vars

C9_Witness == Returned /\ state.final # <<>> /\ state.final = state.draft

\* the urls of the first 20 results
SourceUrls ==
  LET sources == Take(state.results, MaxSources)
  IN [i \in 1..Len(sources) |-> sources[i].url]

\* the place of the first occurrence of url in urls
FirstAt(url, urls) ==
  CHOOSE i \in 1..Len(urls) :
    urls[i] = url /\ \A j \in 1..(i - 1) : urls[j] # url

\* C10: once the writer has run, references holds no url twice, only urls
\* of the first 20 results, in the order of their first occurrence there.
C10_ReferencesUniqueOrdered ==
  ("writer" \in {calls[i].node : i \in 1..Len(calls)}) =>
    LET refs == state.references IN
    /\ \A i, j \in 1..Len(refs) : refs[i] = refs[j] => i = j
    /\ \A i \in 1..Len(refs) : \E k \in 1..Len(SourceUrls) : SourceUrls[k] = refs[i]
    /\ \A i, j \in 1..Len(refs) :
         i < j => FirstAt(refs[i], SourceUrls) < FirstAt(refs[j], SourceUrls)

C10_Witness ==
  /\ calls # <<>>
  /\ Last(calls).node = "writer"
  /\ Len(state.results) > MaxSources
  /\ Len(state.references) = MaxSources

\* the entries the searches of the last Research stage returned, in plan-step
\* order and in result order within the step, each with the index of its step
RECURSIVE SearchReturns(_)
SearchReturns(log) ==
  IF log = <<>> THEN <<>>
  ELSE LET e == Head(log)
           entries == IF e.call = "search" /\ e.found.exc = "none"
                      THEN [i \in 1..Len(e.found.results) |->
                              [title |-> e.found.results[i].title,
                               url |-> e.found.results[i].url,
                               snippet |-> e.found.results[i].snippet,
                               step_index |-> e.step]]
                      ELSE <<>>
       IN entries \o SearchReturns(Tail(log))

AfterResearch == calls # <<>> /\ Last(calls).node = "researcher"

\* a search of the last Research stage raised a configuration error
ResearchAborted ==
  \E i \in 1..Len(io) : io[i].call = "search" /\ io[i].found.exc = "ValueError"

\* results holds no url twice, as many entries as distinct (non-empty) urls
\* were returned, and for each url the first entry returned with it
ResultsAreFirstSeen ==
  LET results == state.results
      returned == SearchReturns(io)
      urls == [i \in 1..Len(returned) |-> returned[i].url]
  IN /\ \A i, j \in 1..Len(results) : results[i].url = results[j].url => i = j
     /\ Len(results) = Cardinality({urls[i] : i \in 1..Len(urls)} \ {""})
     /\ \A i \in 1..Len(results) :
          /\ \E k \in 1..Len(urls) : urls[k] = results[i].url
          /\ results[i] = returned[FirstAt(results[i].url, urls)]

\* C11 (as stated): after the Research stage, results holds no two entries
\* with the same url, its length is the number of distinct urls returned
\* across all steps' searches, and the entry kept for a url is the first one
\* returned.
C11_ResultsUniqueFirstSeen == AfterResearch => ResultsAreFirstSeen

\* C11 (amended): the same, for a Research stage none of whose searches raised
\* a configuration error; after a configuration error results is empty,
\* whatever the earlier steps returned.
C11_ResultsUniqueUnlessAborted ==
  AfterResearch =>
    IF ResearchAborted THEN state.results = <<>> ELSE ResultsAreFirstSeen

\* two steps returned overlapping urls and the aggregate holds each once
C11_Witness ==
  /\ AfterResearch
  /\ ~ResearchAborted
  /\ Len(state.results) < Len(SelectSeq(SearchReturns(io), LAMBDA r : r.url # ""))
  /\ \E i, j \in 1..Len(SearchReturns(io)) :
       /\ SearchReturns(io)[i].url = SearchReturns(io)[j].url
       /\ SearchReturns(io)[i].step_index < SearchReturns(io)[j].step_index
  /\ \E i \in 1..Len(state.results) : state.results[i].step_index > 0

AfterPlan == calls # <<>> /\ Last(calls).node = "planner"

\* the Plan stage got an answer from the model
PlanAnswered == AfterPlan /\ Len(io) = 2 /\ io[2].response.exc = "none"
PlanResponse == io[2].response

IsJson(response) == response.json # None

\* the non-empty lines of a text, stripped, in order
NonEmptyLines(text) ==
  LET split == Split(text, <<>>) IN
  SelectSeq([i \in 1..Len(split) |-> Strip(split[i])], LAMBDA l : l # <<>>)

\* plan holds the first 5 of `lines`, or the query when there is no line
PlanFromLines(lines) ==
  IF lines = <<>> THEN state.plan = <<state.query>>
  ELSE /\ Len(state.plan) = (IF Len(lines) > 5 THEN 5 ELSE Len(lines))
       /\ \A i \in 1..Len(state.plan) : state.plan[i] = lines[i]

\* C12 (as stated): when the model's planning response is not valid JSON,
\* the Plan stage sets plan to the single-element sequence [query].
C12_NonJsonGivesQuery ==
  (PlanAnswered /\ ~IsJson(PlanResponse)) => state.plan = <<state.query>>

\* C12 (amended): when the model's planning response is not valid JSON, plan
\* is the first 5 non-empty lines of the response, stripped, and [query]
\* only when the response has no non-empty line.
C12_NonJsonGivesLines ==
  (PlanAnswered /\ ~IsJson(PlanResponse)) =>
    PlanFromLines(NonEmptyLines(PlanResponse.text))

\* a response of more than 5 lines that is not JSON became a plan of 5 steps
C12_Witness ==
  /\ PlanAnswered
  /\ ~IsJson(PlanResponse)
  /\ Len(NonEmptyLines(PlanResponse.text)) > 5
  /\ Len(state.plan) = 5
  /\ state.plan # <<state.query>>

\* a Python str, as the model holds it
IsStr(x) == x \in Seq(STRING)

\* C19: after the Plan stage, for every model response, plan either has
\* between 2 and 5 items or equals [query], and every item is a string.
C19_PlanLength ==
  AfterPlan =>
    /\ \/ Len(state.plan) \in 2..5
       \/ state.plan = <<state.query>>
    /\ \A i \in 1..Len(state.plan) : IsStr(state.plan[i])

\* C20 (as stated): a response that parses as JSON is used as parsed;
\* otherwise each non-empty line of the response is one step, in order, at
\* most the first 5; with no non-empty line the plan is [query].
C20_ThreeTiers ==
  PlanAnswered =>
    IF IsJson(PlanResponse)
    THEN /\ PlanResponse.json.t = "list"
         /\ Len(state.plan) = Len(PlanResponse.json.items)
         /\ \A i \in 1..Len(state.plan) : PyStr(state.plan[i]) = PlanResponse.json.items[i]
    ELSE PlanFromLines(NonEmptyLines(PlanResponse.text))

\* C20 (amended): a response that parses as a JSON list of 2 to 5 items is
\* used as parsed, each item turned into a string; a response that parses as
\* any other JSON document gives [query]; a response that is not JSON gives
\* its non-empty lines, at most the first 5, or [query] when it has none.
C20_ThreeTiersValidated ==
  PlanAnswered =>
    IF IsJson(PlanResponse)
    THEN LET doc == PlanResponse.json IN
         IF doc.t = "list" /\ Len(doc.items) \in 2..5
         THEN /\ Len(state.plan) = Len(doc.items)
              /\ \A i \in 1..Len(state.plan) :
                   state.plan[i] = IF doc.items[i].t = "str" THEN doc.items[i].v
                                   ELSE <<ToString(doc.items[i].v)>>
         ELSE state.plan = <<state.query>>
    ELSE PlanFromLines(NonEmptyLines(PlanResponse.text))

\* a JSON list of more than 5 steps was answered and the plan is the query
C20_Witness ==
  /\ PlanAnswered
  /\ IsJson(PlanResponse)
  /\ PlanResponse.json.t = "list"
  /\ Len(PlanResponse.json.items) > 5
  /\ state.plan = <<state.query>>

\* C13: in a run where Research yields empty results, Research appends a
\* warning message, Write sets the "no results" draft with empty references
\* without calling the model, and the run ends with final equal to that
\* draft whatever the model answers to the review.
C13_EmptyResultsRun ==
  (Len(calls) >= 2 /\ state.results = <<>>) =>
    /\ IsWarning(state.messages[3])
    /\ (Last(calls).node = "writer" =>
          /\ state.draft = NoResultsDraft
          /\ state.references = <<>>
          /\ io = <<>>)
    /\ (Returned => state.final = NoResultsDraft)

\* C15: messages is append-only: every stage invocation, on normal and on
\* degraded paths, extends messages by exactly one entry at the end and
\* leaves the earlier entries unchanged and in order.
C15_MessagesAppendOnly ==
  [][ /\ IsPrefix(state.messages, state'.messages)
      /\ calls' # calls => Len(state'.messages) = Len(state.messages) + 1 ]_vars

\* a run of four stages, the first of them degraded, left five messages
C15_Witness ==
  /\ Returned
  /\ Len(calls) = 4
  /\ calls[1].failed
  /\ IsWarning(state.messages[2])
  /\ Len(state.messages) = 5

AfterReview == calls # <<>> /\ Last(calls).node = "reviewer"

\* the Review stage got an answer from the model
ReviewAnswered == AfterReview /\ Len(io) = 2 /\ io[2].response.exc = "none"

\* the Review stage's model was unavailable, or its call failed
ReviewFailed ==
  /\ AfterReview
  /\ \/ \E i \in 1..Len(io) : io[i].call = "get_llm" /\ io[i].exc # "none"
     \/ \E i \in 1..Len(io) : io[i].call = "invoke" /\ io[i].response.exc # "none"

\* C16: for a non-empty draft and a successful model call, the Review
\* stage's update follows the decision table: revised_once false and
\* approved gives final = draft; revised_once false and needs-revision gives
\* revised_once = true with final left unset; revised_once true gives
\* final = draft for either verdict.
C16_ReviewDecisionTable ==
  (ReviewAnswered /\ state.draft # <<>>) =>
    LET update == final_state
        revised_before == Last(calls).revised_before
        needs_revision == Contains(<<"NEEDS_REVISION">>, Upper(io[2].response.text))
    IN IF ~revised_before /\ needs_revision
       THEN /\ DOMAIN update = {"revised_once", "messages"}
            /\ update.revised_once = TRUE
            /\ state.final = <<>>
       ELSE /\ DOMAIN update = {"final", "messages"}
            /\ update.final = state.draft
            /\ state.final = state.draft

\* the review of an already revised draft asked for a revision again, and
\* the draft became final
C16_Witness ==
  /\ ReviewAnswered
  /\ state.draft = <<"Solar grows [1].">>
  /\ Last(calls).revised_before
  /\ io[2].response.text = <<"Verdict: ", "needs_revision">>
  /\ state.final = state.draft

\* C17: when the Review stage's model is unavailable or the review call
\* fails, Review sets final = draft and the run terminates, for both values
\* of revised_once; a Review failure never leaves final empty.
C17_ReviewFailsOpen ==
  ReviewFailed =>
    /\ state.draft # <<>>
    /\ "final" \in DOMAIN final_state
    /\ final_state.final = state.draft
    /\ state.final = state.draft
    /\ pc = END

\* the review call of an already revised draft failed and the draft is final
C17_Witness ==
  /\ ReviewFailed
  /\ Last(calls).revised_before
  /\ Len(io) = 2
  /\ state.final = state.draft
  /\ state.final # <<>>
  /\ pc = END

\* C18: when Review is invoked with an empty draft, it sets final to
\* "No draft available." and makes no model call, whatever the value of
\* revised_once.
C18_EmptyDraftShortCircuit ==
  (AfterReview /\ state.draft = <<>>) =>
    /\ "final" \in DOMAIN final_state
    /\ final_state.final = <<"No draft available.">>
    /\ state.final = <<"No draft available.">>
    /\ io = <<>>

\* Review ran on an empty draft with revised_once set
C18_Witness ==
  /\ AfterReview
  /\ state.draft = <<>>
  /\ Last(calls).revised_before
  /\ state.final = <<"No draft available.">>
  /\ io = <<>>

\* what run r returns when executed alone with the gateway answers it got
ReturnsAlone(run) ==
  Alone(initial_state(run.args.query, run.args.llm_provider, run.args.model_name,
                      run.args.search_provider, run.args.num_results),
        "planner", None, run.answers)

\* C14: two runs of run_research executing concurrently with different
\* queries share no mutable state: under every interleaving of their stage
\* steps, no step of one run touches the other run's state or checkpoint
\* store, and each run ends with what it ends with when executed alone with
\* the same gateway answers.
C14_RunsShareNoState ==
  [][ \A r \in Runs :
        /\ runs'[r] # runs[r] =>
             \A o \in Runs \ {r} :
               /\ runs'[o] = runs[o]
               /\ memory'[MemorySaver(o)] = memory[MemorySaver(o)]
        /\ runs'[r].outcome.status # "running" =>
             runs'[r].outcome = ReturnsAlone(runs'[r]) ]_vars

\* the second run started while the first was between two stages, the two
\* thread_ids are the same, and both runs returned, each its own result
C14_Witness ==
  /\ runs # <<>>
  /\ runs[2].overlapped
  /\ runs[1].thread_id = runs[2].thread_id
  /\ \A r \in Runs : runs[r].outcome.status = "returned"
  /\ "final" \in DOMAIN runs[1].outcome.value
  /\ "final" \in DOMAIN runs[2].outcome.value
  /\ runs[1].outcome.value.final # runs[2].outcome.value.final

\* the completion gateway reported a configuration error to the last stage
ConfigError == \E i \in 1..Len(io) : io[i].call = "get_llm" /\ io[i].exc = "ValueError"

\* the last stage called the model
ModelCalled == \E i \in 1..Len(io) : io[i].call = "invoke"

\* C21: when the completion gateway reports a configuration error to the
\* Plan stage, Plan does not raise: it returns plan = [query] with one
\* warning message, makes no model call, and the run continues to Research.
C21_PlanConfigError ==
  (AfterPlan /\ ConfigError) =>
    /\ outcome.status = "running"
    /\ DOMAIN final_state = {"plan", "messages"}
    /\ final_state.plan = <<state.query>>
    /\ state.plan = <<state.query>>
    /\ Len(final_state.messages) = 1
    /\ IsWarning(final_state.messages[1])
    /\ ~ModelCalled
    /\ pc = "researcher"

\* the Plan stage met a missing API key and handed the query to Research
C21_Witness ==
  /\ AfterPlan
  /\ ConfigError
  /\ io = <<LlmCall("ValueError")>>
  /\ state.plan = <<state.query>>
  /\ IsWarning(state.messages[2])
  /\ pc = "researcher"

\* the entries returned hold pairwise distinct, non-empty urls
AllDistinct(returned) ==
  /\ \A i \in 1..Len(returned) : returned[i].url # ""
  /\ \A i, j \in 1..Len(returned) : returned[i].url = returned[j].url => i = j

\* every entry of results is stamped with the earliest step that returned its
\* url, the stamps never decrease along results, and results is `returned`
\* when `unique` holds of it
StampedByEarliestStep(unique) ==
  LET results == state.results
      returned == SearchReturns(io)
  IN /\ \A i \in 1..Len(results) :
          /\ \E k \in 1..Len(returned) :
               /\ returned[k].url = results[i].url
               /\ returned[k].step_index = results[i].step_index
          /\ \A k \in 1..Len(returned) :
               returned[k].url = results[i].url =>
                 returned[k].step_index >= results[i].step_index
     /\ \A i, j \in 1..Len(results) :
          i < j => results[i].step_index <= results[j].step_index
     /\ unique => results = returned

\* C22 (as stated): every entry of results carries as step_index the index
\* of the earliest plan step whose search returned its url, entries appear
\* in non-decreasing step_index order, and when all steps return pairwise
\* distinct urls results is the concatenation of the per-step results in
\* plan order.
C22_StepIndexEarliest ==
  AfterResearch =>
    StampedByEarliestStep(
      \A i, j \in 1..Len(SearchReturns(io)) :
        SearchReturns(io)[i].url = SearchReturns(io)[j].url => i = j)

\* C22 (amended): the same after a Research stage none of whose searches
\* raised a configuration error, the concatenation holding when the urls
\* returned are pairwise distinct and none is empty.
C22_StepIndexEarliestUnlessAborted ==
  (AfterResearch /\ ~ResearchAborted) =>
    StampedByEarliestStep(AllDistinct(SearchReturns(io)))

\* two steps of 3 results with distinct urls gave 6 entries stamped
\* 0,0,0,1,1,1
C22_Witness ==
  /\ AfterResearch
  /\ ~ResearchAborted
  /\ Len(state.plan) = 2
  /\ AllDistinct(SearchReturns(io))
  /\ Len(state.results) = 6
  /\ [i \in 1..6 |-> state.results[i].step_index] = <<0, 0, 0, 1, 1, 1>>

\* the search calls of the last Research stage, in order
SearchEvents == SelectSeq(io, LAMBDA e : e.call = "search")

\* a search of the last Research stage raised an error that is not a
\* configuration error
StepFailed(e) == e.found.exc \notin {"none", "ValueError"}

C24_ConfigErrorAborts ==
  (AfterResearch /\ ResearchAborted) =>
    /\ Last(io) = Last(SearchEvents)
    /\ Last(SearchEvents).found.exc = "ValueError"
    /\ \A i \in 1..Len(SearchEvents) :
         /\ SearchEvents[i].step = i - 1
         /\ i < Len(SearchEvents) => SearchEvents[i].found.exc # "ValueError"
    /\ "results" \in DOMAIN final_state
    /\ final_state.results = <<>>
    /\ state.results = <<>>
    /\ IsWarning(Last(state.messages))

\* the second of at least three steps met the configuration error after the
\* first step had returned entries
C24_Witness ==
  /\ AfterResearch
  /\ Len(state.plan) >= 3
  /\ Len(SearchEvents) = 2
  /\ SearchEvents[1].found.results # <<>>
  /\ SearchEvents[2].found.exc = "ValueError"
  /\ state.results = <<>>

\* C25: in the Research stage a fixed delay occurs between the search calls
\* of every two consecutive plan steps, whether or not the earlier step's
\* search succeeded, and no delay occurs after the search of the final step.
C25_DelayBetweenSteps ==
  AfterResearch =>
    /\ \A i \in 1..(Len(io) - 1) :
         io[i].call = "search" => io[i + 1].call = "sleep"
    /\ \A i \in 1..(Len(io) - 1) :
         io[i].call = "sleep" => io[i + 1].call = "search"
    /\ io # <<>> => Last(io).call = "search"

AfterWrite == calls # <<>> /\ Last(calls).node = "writer"

\* the Write stage got an answer from the model
WriteAnswered == AfterWrite /\ Len(io) = 2 /\ io[2].response.exc = "none"

\* the Write stage's model was unavailable, or its call failed
WriteFailed ==
  /\ AfterWrite
  /\ \/ ConfigError
     \/ \E i \in 1..Len(io) : io[i].call = "invoke" /\ io[i].response.exc # "none"

\* C26: in every run where Write produces references, the second
\* deduplication is a no-op on Research's output: references has exactly
\* min(20, |results|) entries and its i-th entry is the url of the i-th
\* entry of results, the source numbered [i] in the listing given to the
\* model.
C26_ReferencesMatchListing ==
  WriteAnswered =>
    LET refs == state.references
        listing == SourceListing(state.results)
    IN /\ Len(refs) = (IF Len(state.results) > 20 THEN 20 ELSE Len(state.results))
       /\ Len(refs) = Len(listing)
       /\ \A i \in 1..Len(refs) :
            /\ refs[i] = state.results[i].url
            /\ listing[i].number = i
            /\ listing[i].url = refs[i]

\* Write answered on more than 20 results gathered by several steps
C26_Witness ==
  /\ WriteAnswered
  /\ Len(state.results) > 20
  /\ Len(state.references) = 20
  /\ state.references[20] = state.results[20].url
  /\ state.results[20].step_index > 0

\* C27: when Write is invoked with empty results, it sets draft to the fixed
\* text "No research results available to synthesize.", sets references to
\* empty, and makes no model call.
C27_NoResultsShortCircuit ==
  (AfterWrite /\ state.results = <<>>) =>
    /\ outcome.status = "running"
    /\ DOMAIN final_state = {"draft", "references", "messages"}
    /\ final_state.draft = <<"No research results available to synthesize.">>
    /\ final_state.references = <<>>
    /\ state.draft = <<"No research results available to synthesize.">>
    /\ state.references = <<>>
    /\ io = <<>>

\* Write ran after a Research stage whose searches all came back empty
C27_Witness ==
  /\ AfterWrite
  /\ state.results = <<>>
  /\ Len(state.plan) >= 2
  /\ state.draft = <<"No research results available to synthesize.">>
  /\ io = <<>>

\* C28: when the model is unavailable or the model call fails in Write,
\* Write sets draft to a non-empty explanatory error string and references
\* to empty and does not raise, so the following Review receives a
\* non-empty draft.
C28_WriteFailureGivesErrorDraft ==
  WriteFailed =>
    /\ outcome.status = "running"
    /\ DOMAIN final_state = {"draft", "references", "messages"}
    /\ final_state.draft # <<>>
    /\ Head(final_state.draft) \in {"Error: Could not initialize LLM - ",
                                    "Error generating brief: "}
    /\ final_state.references = <<>>
    /\ state.draft = final_state.draft
    /\ state.references = <<>>
    /\ pc = "reviewer"

\* the model call of Write failed on results that were there
C28_Witness ==
  /\ WriteFailed
  /\ ~ConfigError
  /\ state.results # <<>>
  /\ state.draft = <<"Error generating brief: ", "Exception">>
  /\ state.references = <<>>
  /\ pc = "reviewer"

AfterSearch == calls # <<>> /\ Last(calls).node = "search"

\* the requests a search call sent to the backend, in order
Requests(log) == SelectSeq(log, LAMBDA e : e.op = "request")

\* a failure the gateway takes for a passing one
Transient(a) == a.kind \in {"RequestException", "Exception"}

\* the number of attempts a call that retries passing failures makes, up to 3
AttemptsDue(attempts) ==
  IF \E i \in 1..3 : ~Transient(attempts[i])
  THEN CHOOSE i \in 1..3 :
         ~Transient(attempts[i]) /\ \A j \in 1..(i - 1) : Transient(attempts[j])
  ELSE 3

\* C29: for every search provider, a transient failure of a search call is
\* retried with growing waits between attempts up to a total of 3 attempts,
\* after which the call ends with no wait after the last attempt; a
\* configuration error is raised before any backend call and never retried.
C29_TransientRetried ==
  AfterSearch =>
    LET found == io[1].found
        log == found.log
        attempts == calls[1].backend.attempts
    IN IF found.exc \in {"ValueError", "ImportError"} THEN log = <<>>
       ELSE /\ Len(Requests(log)) = AttemptsDue(attempts)
            /\ \A i \in 1..Len(Requests(log)) : Requests(log)[i].attempt = i - 1
            /\ Len(log) = 2 * Len(Requests(log)) - 1
            /\ \A i \in 1..Len(log) :
                 log[i].op = (IF i % 2 = 1 THEN "request" ELSE "sleep")
            /\ \A i, j \in 1..Len(log) :
                 (log[i].op = "sleep" /\ log[j].op = "sleep" /\ i < j) =>
                   log[i].seconds < log[j].seconds

\* the count a request is sent with, and the most items a call returns
Clamped(k) == IF k < 1 THEN 1 ELSE IF k > 10 THEN 10 ELSE k

C31_TransientErrorSurfaced ==
  (/\ AfterSearch
   /\ io[1].found.log # <<>>
   /\ \A i \in 1..Len(Requests(io[1].found.log)) :
        Transient(calls[1].backend.attempts[i])) =>
    io[1].found.exc # "none"

\* the fields of the state a stage may write
Writes(node) ==
  IF node = "planner" THEN {"plan", "messages"}
  ELSE IF node = "researcher" THEN {"results", "messages"}
  ELSE IF node = "writer" THEN {"draft", "references", "messages"}
  ELSE {"final", "revised_once", "messages"}

\* the query and the configuration of a run
ConfigFields ==
  {"query", "llm_provider", "model_name", "search_provider", "num_results"}

\* C32: every stage leaves the fields it does not write unchanged: the
\* planner changes only plan and messages, the researcher only results and
\* messages, the writer only draft, references and messages, the reviewer
\* only messages plus either final or revised_once; the query and the
\* configuration fields keep their initial values for the whole run.
C32_StagesWriteOwnFields ==
  [][/\ DOMAIN state' = DOMAIN state
     /\ \A k \in DOMAIN state :
          state'[k] # state[k] =>
            /\ calls' # calls
            /\ k \in Writes(Last(calls').node)
            /\ k \notin ConfigFields
     /\ ~(state'.final # state.final /\ state'.revised_once # state.revised_once)]_vars

C32_Witness ==
  /\ Returned
  /\ Nodes = OnePass
  /\ state.plan # <<>> /\ state.results # <<>>
  /\ state.draft # <<>> /\ state.references # <<>>
  /\ state.final # <<>>
  /\ state.query = <<"solar energy trends">>
  /\ state.llm_provider = "anthropic" /\ state.search_provider = "duckduckgo"
  /\ state.num_results = 10

\* the distinct non-empty urls the searches of the last Research stage returned
ReturnedUrls ==
  LET returned == SearchReturns(io)
  IN {returned[i].url : i \in 1..Len(returned)} \ {""}

\* C33: after the Research stage no entry of results has an empty url: a
\* search result whose url is missing or empty is dropped, so it is not
\* numbered as a source in the writer's listing and not counted among the
\* distinct urls the researcher reports.
C33_NoEmptyUrl ==
  /\ \A i \in 1..Len(state.results) : state.results[i].url # ""
  /\ \A i \in 1..Len(SourceListing(state.results)) :
       SourceListing(state.results)[i].url # ""
  /\ (AfterResearch /\ state.results # <<>>) =>
       /\ Len(state.results) = Cardinality(ReturnedUrls)
       /\ Last(state.messages).content[2] = ToString(Cardinality(ReturnedUrls))

C33_Witness ==
  /\ AfterResearch
  /\ state.results # <<>>
  /\ \E i \in 1..Len(SearchReturns(io)) : SearchReturns(io)[i].url = ""

\* lines 36-41 of search: the provider names the gateway accepts
AcceptedProviders == {"duckduckgo", "brave", "serper"}

\* C34: every search-provider choice the web interface offers reaches the
\* search gateway as a provider name the gateway accepts, so a run started
\* from the interface with the provider that needs no key never ends in the
\* researcher's configuration-error path.
C34_InterfaceProviderAccepted ==
  /\ state.search_provider \in AcceptedProviders
  /\ (AfterResearch /\ state.search_provider = Join(Lower(search_choices[1])))
       => ~ResearchAborted

====
